---------------------------- MODULE Spec2Model ----------------------------
(***************************************************************************)
(* Request validation and pre-dispatch core of the text-generation router  *)
(* (router/src/validation.rs).                                             *)
(*                                                                         *)
(* Conventions of the model                                                *)
(*   - Option<T>: None is <<>>, Some(v) is <<v>>.                          *)
(*   - f32 parameters are integers counting hundredths (1.0 is 100,        *)
(*     0.99 is 99, -2.0 is -200); every comparison of the code is against  *)
(*     0.0, 1.0 or +-2.0, exact on these values.                           *)
(*   - u32 is U32Bits wide (arithmetic modulo 2^U32Bits); usize is 64 bits *)
(*     wide and never overflows on the values of the model.                *)
(*   - A String is a sequence of characters; error messages are sequences  *)
(*     of message parts.                                                   *)
(***************************************************************************)
EXTENDS Integers, Sequences, FiniteSets, TLC

\* ------------------------------------------------------------------ bounds

\* Width of u32 in the model.
U32Bits == 4

\* Largest number of request fields that differ from the default request.
MaxSet == 3

\* Tokenizer / grammar workers per pool in the pool specification.
PoolWorkers == 2

\* Concurrent validate calls in the pool specification.
PoolCallers == 3

\* Workers that end early in the pool specification.
MaxPanics == 1

\* Callers in the queue depth specification.
DepthCallers == 4

\* Calls made in all in the queue depth specification.
MaxSent == 7

U32Mod == 2 ^ U32Bits

U32Max == U32Mod - 1

\* ------------------------------------------------------------------ options

None == <<>>

Some(v) == <<v>>

IsSome(o) == Len(o) = 1

Unwrap(o) == o[1]

UnwrapOr(o, d) == IF IsSome(o) THEN o[1] ELSE d

\* `x as u32` of a non-negative usize.
AsU32(x) == x % U32Mod

\* usize::saturating_sub
SaturatingSub(a, b) == IF a >= b THEN a - b ELSE 0

\* ------------------------------------------------------------------ results

Ok(v) == [kind |-> "ok", val |-> v]

Err(e) == [kind |-> "err", err |-> e]

\* A validate call that ended in a panic (an unwrap on an Err, an overflow
\* in a build with overflow checks): neither Ok nor Err is returned.
Panicked == [kind |-> "panic"]

NoResult == [kind |-> "none"]

IsOk(r) == r.kind = "ok"

IsErr(r) == r.kind = "err"

\* ValidationError: the variant and its fields.
Error(name, args) == [name |-> name, args |-> args]

ErrIs(r, name) == IsErr(r) /\ r.err.name = name

\* ------------------------------------------------------------ configuration

\* Validation::new with the limits of the unit tests (max_best_of 2,
\* max_stop_sequences 3, max_top_n_tokens 4, max_input_length 5,
\* max_total_tokens 6); the tokenizer, the grammar switch, the number of
\* workers and max_best_of are what the configurations vary, with the build
\* the value lives in: with or without overflow checks on integer arithmetic.
Validation(workers, tokenizer, max_best_of, disable_grammar_support, overflow_checks) ==
    [ workers                 |-> workers,
      tokenizer               |-> tokenizer,
      max_best_of             |-> max_best_of,
      max_stop_sequences      |-> 3,
      max_top_n_tokens        |-> 4,
      max_input_length        |-> 5,
      max_total_tokens        |-> 6,
      disable_grammar_support |-> disable_grammar_support,
      overflow_checks         |-> overflow_checks ]

\* Validation::new with other token limits: it takes any two numbers.
WithLimits(self, max_input_length, max_total_tokens) ==
    [self EXCEPT !.max_input_length = max_input_length,
                 !.max_total_tokens = max_total_tokens]

\* ---------------------------------------------------------------- tokenizer

\* The tokenizer collaborator: a vocabulary of three tokens with one merge
\* ("a" "b" -> "ab"); the character "?" is outside the vocabulary and makes
\* encode fail.
TokenText(id) ==
    CASE id = 1 -> <<"a">>
      [] id = 2 -> <<"b">>
      [] id = 3 -> <<"a", "b">>

RECURSIVE Encode(_)
Encode(text) ==
    IF text = <<>> THEN <<>>
    ELSE IF Len(text) >= 2 /\ text[1] = "a" /\ text[2] = "b"
         THEN <<3>> \o Encode(SubSeq(text, 3, Len(text)))
         ELSE <<(IF text[1] = "a" THEN 1 ELSE 2)>> \o Encode(Tail(text))

EncodeFails(text) == \E i \in 1..Len(text) : text[i] = "?"

RECURSIVE Decode(_)
Decode(ids) ==
    IF ids = <<>> THEN <<>> ELSE TokenText(Head(ids)) \o Decode(Tail(ids))

\* A truncation from the right: the first n ids stay.
TruncateRight(encoding, n) == SubSeq(encoding, 1, n)

\* Encoding::truncate(n, 0, TruncationDirection::Left): the last n ids stay.
TruncateLeft(encoding, n) ==
    SubSeq(encoding, Len(encoding) - n + 1, Len(encoding))

\* prepare_input: the reply of a tokenizer worker.
prepare_input(inputs, truncate) ==
    IF EncodeFails(inputs)
    THEN Err(Error("Tokenizer", <<"unknown character">>))
    ELSE LET encoding == Encode(inputs) IN
         IF IsSome(truncate) /\ Unwrap(truncate) < Len(encoding)
         THEN LET cut == TruncateLeft(encoding, Unwrap(truncate)) IN
              Ok([encoding |-> cut, inputs |-> Decode(cut)])
         ELSE Ok([encoding |-> encoding, inputs |-> inputs])

\* ------------------------------------------------------------------ grammar

\* serde_json::Value, as far as validate looks at it: a string holding a JSON
\* text, an object (named by the schema it holds) or a number.
JsonString(s) == [t |-> "string", s |-> s, id |-> ""]

JsonObject(id) == [t |-> "object", s |-> "", id |-> id]

JsonNumber == [t |-> "number", s |-> "", id |-> ""]

\* serde_json::from_str on the JSON texts of the model: "{S}" and "{F}" hold
\* valid schemas, "{B}" an object that is no schema, "5" a number and "{" is
\* no JSON at all.
from_str(s) ==
    CASE s = "{S}" -> Ok(JsonObject("S"))
      [] s = "{F}" -> Ok(JsonObject("F"))
      [] s = "{B}" -> Ok(JsonObject("B"))
      [] s = "5"   -> Ok(JsonNumber)
      [] OTHER     -> Err(Error("Syntax", <<"EOF while parsing">>))

\* serde_json::to_string
to_string(json) ==
    CASE json.t = "object" /\ json.id = "S" -> "{S}"
      [] json.t = "object" /\ json.id = "F" -> "{F}"
      [] json.t = "object" /\ json.id = "B" -> "{B}"
      [] json.t = "number" -> "5"
      [] OTHER             -> json.s

\* JSONSchema::options().with_draft(Draft202012).compile(&json)
SchemaCompiles(json) == json.t = "object" /\ json.id \in {"S", "F"}

\* Display of a ValidationError (the #[error(...)] texts), for the variants
\* whose text the code reads back.
Display(e) ==
    CASE e.name = "InvalidGrammar" -> <<"grammar is not valid: ">> \o e.args
      [] e.name = "Tokenizer"      -> <<"tokenizer error ">> \o e.args
      [] OTHER                     -> <<e.name>>

\* compile_grammar (the worker's function): the regex the grammar library
\* builds from a schema, with the FSM's states_to_token_maps; the library
\* raises on the schema "{F}".
compile_grammar(inputs) ==
    IF inputs = "{S}"
    THEN Ok([regex |-> "(S)", maps |-> <<"fsm">>])
    ELSE Err(Error("InvalidGrammar", <<"python error">>))

\* ------------------------------------------------------------------ request

\* GenerateRequest with default_parameters() and the prompt of the tests
\* (one token).
DefaultRequest ==
    [ inputs                |-> <<"a">>,
      best_of               |-> None,
      temperature           |-> None,
      repetition_penalty    |-> None,
      frequency_penalty     |-> None,
      top_k                 |-> None,
      top_p                 |-> None,
      typical_p             |-> None,
      do_sample             |-> FALSE,
      max_new_tokens        |-> None,
      stop                  |-> <<>>,
      truncate              |-> None,
      seed                  |-> None,
      watermark             |-> FALSE,
      decoder_input_details |-> FALSE,
      top_n_tokens          |-> None,
      grammar               |-> None ]

GrammarJson(json) == [kind |-> "json", json |-> json, regex |-> ""]

GrammarRegex(regex) == [kind |-> "regex", json |-> JsonNumber, regex |-> regex]

\* The values a request field takes besides its default.
FieldValues ==
    [ inputs |-> { <<>>, <<"a", "b", "a">>, <<"?">>,
                   <<"b", "a", "a", "a", "a">>,
                   <<"a", "a", "a", "a", "a", "a">>,
                   <<"a", "a", "a", "a", "a", "a", "a">> },
      best_of               |-> { Some(0), Some(1), Some(2), Some(3) },
      temperature           |-> { Some(0), Some(50) },
      repetition_penalty    |-> { Some(0), Some(120) },
      frequency_penalty     |-> { Some(-200), Some(250) },
      top_k                 |-> { Some(0), Some(10) },
      top_p                 |-> { Some(0), Some(99), Some(100) },
      typical_p             |-> { Some(50), Some(100) },
      do_sample             |-> { TRUE },
      max_new_tokens        |-> { Some(0), Some(1), Some(5), Some(10), Some(U32Max) },
      stop                  |-> { <<"s1", "s2", "s3">>, <<"s1", "s2", "s3", "s4">> },
      truncate              |-> { Some(0), Some(2), Some(6) },
      seed                  |-> { Some(7) },
      watermark             |-> { TRUE },
      decoder_input_details |-> { TRUE },
      top_n_tokens          |-> { Some(0), Some(4), Some(5) },
      grammar               |-> { Some(GrammarRegex("a+")),
                                  Some(GrammarJson(JsonObject("S"))),
                                  Some(GrammarJson(JsonObject("B"))),
                                  Some(GrammarJson(JsonObject("F"))),
                                  Some(GrammarJson(JsonString("{S}"))),
                                  Some(GrammarJson(JsonString("{"))),
                                  Some(GrammarJson(JsonString("5"))),
                                  Some(GrammarJson(JsonNumber)) } ]

\* Every way of setting one field: <<field, value>>.
Settings ==
    UNION { { <<f, v>> : v \in FieldValues[f] } : f \in DOMAIN FieldValues }

\* The requests that differ from those of `from` in at most n fields.
RECURSIVE Vary(_, _)
Vary(from, n) ==
    IF n = 0 THEN from
    ELSE LET less == Vary(from, n - 1) IN
         less \cup { [r EXCEPT ![s[1]] = s[2]] : r \in less, s \in Settings }

\* ------------------------------------------------- validate: the parameters

\* let best_of = best_of.unwrap_or(1);
BestOf(r) == UnwrapOr(r.best_of, 1)

\* let sampling = do_sample || temperature.is_some() || ...
Sampling(r) ==
    \/ r.do_sample
    \/ IsSome(r.temperature)
    \/ IsSome(r.top_k)
    \/ IsSome(r.top_p)
    \/ IsSome(r.typical_p)

Fails(cond, name, args) == IF cond THEN Some(Error(name, args)) ELSE None

\* best_of accepted without a look at sampling.
NoSamplingCheck(r) == None

CheckBestOfSampling(r) ==
    Fails(BestOf(r) > 1 /\ ~Sampling(r), "BestOfSampling", <<>>)

CheckTemperature(r) ==
    Fails(UnwrapOr(r.temperature, 100) <= 0, "Temperature", <<>>)

CheckRepetitionPenalty(r) ==
    Fails(UnwrapOr(r.repetition_penalty, 100) <= 0, "RepetitionPenalty", <<>>)

CheckFrequencyPenalty(r) ==
    LET v == UnwrapOr(r.frequency_penalty, 0) IN
    Fails(~(-200 <= v /\ v <= 200), "FrequencyPenalty", <<>>)

\* A top_p check that lets 1.0 through.
TopPInclusive(r) ==
    Fails(IsSome(r.top_p) /\ (Unwrap(r.top_p) <= 0 \/ Unwrap(r.top_p) > 100),
          "TopP", <<>>)

CheckTopP(r) ==
    Fails(IsSome(r.top_p) /\ (Unwrap(r.top_p) <= 0 \/ Unwrap(r.top_p) >= 100),
          "TopP", <<>>)

CheckTypicalP(r) ==
    Fails(IsSome(r.typical_p)
            /\ (Unwrap(r.typical_p) <= 0 \/ Unwrap(r.typical_p) >= 100),
          "TypicalP", <<>>)

CheckTopK(r) ==
    Fails(IsSome(r.top_k) /\ Unwrap(r.top_k) <= 0, "TopK", <<>>)

\* A validate that lets max_new_tokens = 0 through.
AllowZero(r) == None

CheckMaxNewTokens(r) ==
    Fails(r.max_new_tokens = Some(0), "NegativeMaxNewTokens", <<>>)

CheckStopSequences(self, r) ==
    Fails(Len(r.stop) > self.max_stop_sequences,
          "StopSequence", <<self.max_stop_sequences, Len(r.stop)>>)

\* A seed taken without a look at best_of.
NoSeedCheck(r) == None

\* Some(seed) => { if best_of > 1 { return Err(BestOfSeed); } seed }
CheckSeed(r) ==
    Fails(IsSome(r.seed) /\ BestOf(r) > 1, "BestOfSeed", <<>>)

\* A top_n_tokens check that rejects the limit itself.
TopNTokensBelow(self, r) ==
    Fails(IsSome(r.top_n_tokens) /\ Unwrap(r.top_n_tokens) >= self.max_top_n_tokens,
          "TopNTokens", <<self.max_top_n_tokens, UnwrapOr(r.top_n_tokens, 0)>>)

CheckTopNTokens(self, r) ==
    Fails(IsSome(r.top_n_tokens) /\ Unwrap(r.top_n_tokens) > self.max_top_n_tokens,
          "TopNTokens", <<self.max_top_n_tokens, UnwrapOr(r.top_n_tokens, 0)>>)

\* A validate that does not look at the prompt.
NoEmptyInputCheck(r) == None

CheckEmptyInput(r) ==
    Fails(r.inputs = <<>>, "EmptyInput", <<>>)

CheckTruncate(self, r) ==
    Fails(IsSome(r.truncate)
            /\ (Unwrap(r.truncate) = 0 \/ Unwrap(r.truncate) > self.max_input_length),
          "Truncate", <<self.max_input_length, UnwrapOr(r.truncate, 0)>>)

\* The checks with the seed looked at right after best_of and the prompt
\* looked at last.
SeedFirstPromptLast(self, r) ==
    << CheckBestOfSampling(r),
       CheckSeed(r),
       CheckTemperature(r),
       CheckRepetitionPenalty(r),
       CheckFrequencyPenalty(r),
       CheckTopP(r),
       CheckTypicalP(r),
       CheckTopK(r),
       CheckMaxNewTokens(r),
       CheckStopSequences(self, r),
       CheckTopNTokens(self, r),
       CheckTruncate(self, r),
       CheckEmptyInput(r) >>

\* The checks validate makes before it calls validate_input, in the order of
\* the code; each returns at once.
ParameterChecks(self, r) ==
    << CheckBestOfSampling(r),
       CheckTemperature(r),
       CheckRepetitionPenalty(r),
       CheckFrequencyPenalty(r),
       CheckTopP(r),
       CheckTypicalP(r),
       CheckTopK(r),
       CheckMaxNewTokens(r),
       CheckStopSequences(self, r),
       CheckSeed(r),
       CheckTopNTokens(self, r),
       CheckEmptyInput(r),
       CheckTruncate(self, r) >>

\* A validate that goes on whatever the checks say.
IgnoreErrors(checks) == None

\* The error of the first check that fails, None when all pass.
FirstError(checks) ==
    LET failed == { i \in DOMAIN checks : IsSome(checks[i]) } IN
    IF failed = {} THEN None
    ELSE checks[CHOOSE i \in failed : \A j \in failed : i <= j]

\* thread_rng().gen(): the seeds a call may draw.
RandomSeeds == {11, 12}

\* A validate that draws a seed whatever the caller gave.
AlwaysDraw(r) == RandomSeeds

\* The seeds validate may end up with: the caller's, or any fresh one.
SeedDraws(r) == IF IsSome(r.seed) THEN {Unwrap(r.seed)} ELSE RandomSeeds

\* Parameters resolved with the zero defaults of the proto message.
ProtoDefaults(r, seed) ==
    [ temperature        |-> UnwrapOr(r.temperature, 0),
      repetition_penalty |-> UnwrapOr(r.repetition_penalty, 0),
      frequency_penalty  |-> UnwrapOr(r.frequency_penalty, 0),
      top_p              |-> UnwrapOr(r.top_p, 0),
      typical_p          |-> UnwrapOr(r.typical_p, 0),
      top_k              |-> AsU32(UnwrapOr(r.top_k, 0)),
      seed               |-> seed,
      top_n_tokens       |-> UnwrapOr(r.top_n_tokens, 0) ]

\* The resolved parameters validate holds once the checks have passed.
Resolved(r, seed) ==
    [ temperature        |-> UnwrapOr(r.temperature, 100),
      repetition_penalty |-> UnwrapOr(r.repetition_penalty, 100),
      frequency_penalty  |-> UnwrapOr(r.frequency_penalty, 0),
      top_p              |-> UnwrapOr(r.top_p, 100),
      typical_p          |-> UnwrapOr(r.typical_p, 100),
      top_k              |-> AsU32(UnwrapOr(r.top_k, 0)),
      seed               |-> seed,
      top_n_tokens       |-> UnwrapOr(r.top_n_tokens, 0) ]

\* ------------------------------------------------------------ validate_input

\* A validate_input that checks the input length alone.
InputLengthOnly(self, reply, max_new_tokens) ==
    LET input_length == Len(reply.encoding)
        mnt == IF IsSome(max_new_tokens) THEN Unwrap(max_new_tokens)
               ELSE AsU32(SaturatingSub(self.max_total_tokens, input_length))
    IN IF input_length > self.max_input_length
       THEN Err(Error("InputLength", <<self.max_input_length, input_length>>))
       ELSE Ok([ inputs         |-> reply.inputs,
                 input_length   |-> input_length,
                 max_new_tokens |-> mnt ])

\* A validate_input that checks the input length before the total.
InputLengthFirst(self, reply, max_new_tokens) ==
    LET input_length == Len(reply.encoding)
        mnt == IF IsSome(max_new_tokens) THEN Unwrap(max_new_tokens)
               ELSE AsU32(SaturatingSub(self.max_total_tokens, input_length))
    IN IF input_length > self.max_input_length
       THEN Err(Error("InputLength", <<self.max_input_length, input_length>>))
       ELSE IF input_length + mnt > self.max_total_tokens
       THEN Err(Error("MaxTotalTokens",
                      <<self.max_total_tokens, input_length, mnt>>))
       ELSE Ok([ inputs         |-> reply.inputs,
                 input_length   |-> input_length,
                 max_new_tokens |-> mnt ])

\* validate_input once the tokenizer worker has replied Ok((encoding, inputs)).
validate_input_encoded(self, reply, max_new_tokens) ==
    LET input_length == Len(reply.encoding)
        mnt == IF IsSome(max_new_tokens) THEN Unwrap(max_new_tokens)
               ELSE AsU32(SaturatingSub(self.max_total_tokens, input_length))
        total_tokens == input_length + mnt
    IN IF total_tokens > self.max_total_tokens
       THEN Err(Error("MaxTotalTokens",
                      <<self.max_total_tokens, input_length, mnt>>))
       ELSE IF input_length > self.max_input_length
       THEN Err(Error("InputLength", <<self.max_input_length, input_length>>))
       ELSE Ok([ inputs         |-> reply.inputs,
                 input_length   |-> input_length,
                 max_new_tokens |-> mnt ])

\* input_length as u32 + max_new_tokens, a u32 addition: it wraps in a build
\* without overflow checks and panics in a build with them.
AddU32(a, b, overflow_checks) ==
    IF a + b <= U32Max THEN Ok(a + b)
    ELSE IF overflow_checks THEN Panicked
    ELSE Ok((a + b) % U32Mod)

\* validate_input without a tokenizer.
validate_input_plain(self, inputs, truncate, max_new_tokens, overflow_checks) ==
    IF ~IsSome(max_new_tokens) /\ ~IsSome(truncate)
    THEN Err(Error("UnsetMaxNewTokens", <<>>))
    ELSE LET mnt == IF IsSome(max_new_tokens) THEN Unwrap(max_new_tokens)
                    ELSE AsU32(SaturatingSub(self.max_total_tokens, Unwrap(truncate)))
             input_length == UnwrapOr(truncate, self.max_input_length)
             sum == AddU32(AsU32(input_length), mnt, overflow_checks)
         IN IF ~IsOk(sum) THEN sum
            ELSE IF sum.val > AsU32(self.max_total_tokens)
            THEN Err(Error("MaxNewTokens",
                           <<self.max_total_tokens - self.max_input_length, mnt>>))
            ELSE Ok([ inputs         |-> inputs,
                      input_length   |-> input_length,
                      max_new_tokens |-> mnt ])

\* ---------------------------------------------------- validate: the grammar

NoGrammar == [grammar |-> "", grammar_type |-> "none", states_to_token_maps |-> None]

EmptyStatesToTokenMaps ==
    [start_states |-> <<>>, tokens |-> <<>>, end_states |-> <<>>]

\* What validate does with the grammar before it awaits a compilation: it is
\* done (the grammar fields, or an error), or it has a JSON text to compile.
GrammarDone(res) == [step |-> "done", res |-> res, inputs |-> ""]

GrammarCompile(inputs) == [step |-> "compile", res |-> NoResult, inputs |-> inputs]

\* A JSON payload taken as it is given, whatever it is.
TakeAsGiven(json) == Ok(json)

\* The JSON payload normalised: a string is parsed again, an object is taken
\* as it is, anything else is no grammar.
NormalizeJson(json) ==
    CASE json.t = "string" ->
           LET parsed == from_str(json.s) IN
           IF IsOk(parsed) THEN parsed
           ELSE Err(Error("InvalidGrammar", parsed.err.args))
      [] json.t = "object" -> Ok(json)
      [] OTHER -> Err(Error("Grammar", <<>>))

\* A validate that does not look at disable_grammar_support.
GrammarStepAlwaysEnabled(self, grammar) ==
    IF ~IsSome(grammar) THEN GrammarDone(Ok(NoGrammar))
    ELSE LET g == Unwrap(grammar) IN
         IF g.kind = "regex"
         THEN GrammarDone(Ok([ grammar              |-> g.regex,
                               grammar_type         |-> "regex",
                               states_to_token_maps |-> None ]))
         ELSE LET json == NormalizeJson(g.json) IN
              IF ~IsOk(json) THEN GrammarDone(json)
              ELSE IF ~SchemaCompiles(json.val)
              THEN GrammarDone(Err(Error("InvalidGrammar", <<"not a schema">>)))
              ELSE GrammarCompile(to_string(json.val))

GrammarStep(self, grammar) ==
    IF ~IsSome(grammar) THEN GrammarDone(Ok(NoGrammar))
    ELSE IF self.disable_grammar_support
    THEN GrammarDone(Err(Error("Grammar", <<>>)))
    ELSE LET g == Unwrap(grammar) IN
         IF g.kind = "regex"
         THEN GrammarDone(Ok([ grammar              |-> g.regex,
                               grammar_type         |-> "regex",
                               states_to_token_maps |-> None ]))
         ELSE LET json == NormalizeJson(g.json) IN
              IF ~IsOk(json) THEN GrammarDone(json)
              ELSE IF ~SchemaCompiles(json.val)
              THEN GrammarDone(Err(Error("InvalidGrammar", <<"not a schema">>)))
              ELSE GrammarCompile(to_string(json.val))

\* Validation::compile_grammar without a grammar sender: Ok((String::new(),
\* BTreeMap::new())).
CompileWithoutSender == Ok([regex |-> "", maps |-> <<>>])

\* What validate makes of the reply to its compilation: the error is wrapped
\* again (InvalidGrammar(e.to_string())), the regex is the grammar and the
\* maps are replaced by empty ones.
GrammarCompiled(reply) ==
    IF IsOk(reply)
    THEN Ok([ grammar              |-> reply.val.regex,
              grammar_type         |-> "regex",
              states_to_token_maps |-> Some(EmptyStatesToTokenMaps) ])
    ELSE Err(Error("InvalidGrammar", Display(reply.err)))

\* ValidGenerateRequest, as validate assembles it.
ValidGenerateRequest(self, r, p, vi, g) ==
    [ inputs                |-> vi.inputs,
      decoder_input_details |-> r.decoder_input_details,
      input_length          |-> AsU32(vi.input_length),
      truncate              |-> AsU32(UnwrapOr(r.truncate, self.max_input_length)),
      parameters            |->
          [ temperature          |-> p.temperature,
            repetition_penalty   |-> p.repetition_penalty,
            frequency_penalty    |-> p.frequency_penalty,
            top_k                |-> p.top_k,
            top_p                |-> p.top_p,
            typical_p            |-> p.typical_p,
            do_sample            |-> r.do_sample,
            seed                 |-> p.seed,
            watermark            |-> r.watermark,
            grammar              |-> g.grammar,
            grammar_type         |-> g.grammar_type,
            states_to_token_maps |-> g.states_to_token_maps ],
      stopping_parameters   |->
          [ max_new_tokens   |-> vi.max_new_tokens,
            stop_sequences   |-> r.stop,
            ignore_eos_token |-> FALSE ],
      top_n_tokens          |-> p.top_n_tokens ]

\* Validation::validate_best_of
validate_best_of(self, best_of) ==
    IF self.max_best_of = 1 /\ best_of # 1
    THEN Err(Error("BestOfDisabled", <<>>))
    ELSE IF best_of > self.max_best_of
    THEN Err(Error("BestOf", <<self.max_best_of, best_of>>))
    ELSE Ok(best_of)

\* -------------------------------------------------------------------- state

VARIABLES
    cfg,      \* the Validation value: the limits, the tokenizer, the workers
    open,     \* the Validation value (both ingress senders) is not dropped yet
    pc,       \* per call: "idle", "tokenize" (awaiting the tokenizer reply),
              \* "compile" (awaiting the grammar reply), "done"
    req,      \* per call: <<>>, <<"validate", request>>, <<"validate_best_of", n>>
    ctx,      \* per call: the locals validate holds over an await
    out,      \* per call: what the call returned
    slot,     \* per call: the oneshot reply slot of its request in flight
    ingress,  \* per pool: the queue between the callers and the dispatcher
    disp,     \* per pool: round_robin_task, its place in `senders`
    wq,       \* per pool and worker: the queue of the worker
    worker,   \* per pool and worker: "running", "panicked", "returned"
    stats     \* per pool: messages sent to it, forwarded by its dispatcher and
              \* served by its workers (counters of the model)

vars == <<cfg, open, pc, req, ctx, out, slot, ingress, disp, wq, worker, stats>>

Pools == {"tokenizer", "grammar"}

\* The stage of validate that awaits a reply of the pool.
Stage(p) == IF p = "tokenizer" THEN "tokenize" ELSE "compile"

Workers == 1..cfg.workers

NoSlot == [st |-> "none", val |-> NoResult]

\* The state Validation::new leaves: both pools running with empty queues when
\* there is a tokenizer, no pool at all when there is none.
InitOf(callers, configs) ==
    /\ cfg \in configs
    /\ open = TRUE
    /\ pc = [c \in callers |-> "idle"]
    /\ req = [c \in callers |-> <<>>]
    /\ ctx = [c \in callers |-> <<>>]
    /\ out = [c \in callers |-> NoResult]
    /\ slot = [c \in callers |-> NoSlot]
    /\ ingress = [p \in Pools |-> <<>>]
    /\ disp = [p \in Pools |->
                 [ st       |-> IF cfg.tokenizer THEN "running" ELSE "absent",
                   next     |-> 1,
                   received |-> 0 ]]
    /\ wq = [p \in Pools |-> [w \in 1..cfg.workers |-> <<>>]]
    /\ worker = [p \in Pools |->
                   [w \in 1..cfg.workers |->
                      IF cfg.tokenizer THEN "running" ELSE "absent"]]
    /\ stats = [p \in Pools |-> [sent |-> 0, forwarded |-> 0, served |-> 0]]

\* ------------------------------------------------------------------ callers

\* The call returns `result` (or ends in a panic).
Return(c, result) ==
    /\ pc' = [pc EXCEPT ![c] = "done"]
    /\ out' = [out EXCEPT ![c] = result]
    /\ ctx' = [ctx EXCEPT ![c] = <<>>]

\* sender.send((payload, response_sender, span)).unwrap() followed by the
\* await on the response channel: the send fails, and the unwrap panics, when
\* the dispatcher has dropped the receiver of the ingress queue.
Send(c, p, inputs, truncate, locals) ==
    IF disp[p].st = "running"
    THEN /\ ingress' = [ingress EXCEPT ![p] =
                          Append(@, [c |-> c, inputs |-> inputs,
                                     truncate |-> truncate, k |-> 0])]
         /\ stats' = [stats EXCEPT ![p].sent = @ + 1]
         /\ slot' = [slot EXCEPT ![c] = [st |-> "pending", val |-> NoResult]]
         /\ pc' = [pc EXCEPT ![c] = Stage(p)]
         /\ ctx' = [ctx EXCEPT ![c] = locals]
         /\ UNCHANGED out
    ELSE /\ Return(c, Panicked)
         /\ slot' = [slot EXCEPT ![c] = NoSlot]
         /\ UNCHANGED <<ingress, stats>>

\* validate from the grammar on, once validate_input has returned Ok(vi).
ValidateGrammar(c, r, p, vi) ==
    LET gs == GrammarStep(cfg, r.grammar) IN
    IF gs.step = "done"
    THEN /\ Return(c, IF IsOk(gs.res)
                      THEN Ok(ValidGenerateRequest(cfg, r, p, vi, gs.res.val))
                      ELSE gs.res)
         /\ slot' = [slot EXCEPT ![c] = NoSlot]
         /\ UNCHANGED <<ingress, stats>>
    ELSE IF cfg.tokenizer
    THEN Send(c, "grammar", gs.inputs, None, <<p, vi>>)
    ELSE LET g == GrammarCompiled(CompileWithoutSender) IN
         /\ Return(c, Ok(ValidGenerateRequest(cfg, r, p, vi, g.val)))
         /\ slot' = [slot EXCEPT ![c] = NoSlot]
         /\ UNCHANGED <<ingress, stats>>

\* validate is called: the parameter checks, then validate_input, which
\* without a tokenizer returns at once and with one sends the prompt to the
\* tokenizer pool and awaits the reply.
Validate(c, r) ==
    /\ req' = [req EXCEPT ![c] = <<"validate", r>>]
    /\ LET e == FirstError(ParameterChecks(cfg, r)) IN
       IF IsSome(e)
       THEN /\ Return(c, Err(Unwrap(e)))
            /\ UNCHANGED <<slot, ingress, stats>>
       ELSE \E seed \in SeedDraws(r) :
              LET p == Resolved(r, seed) IN
              IF cfg.tokenizer
              THEN Send(c, "tokenizer", r.inputs, r.truncate, <<p>>)
              ELSE LET vi == validate_input_plain(cfg, r.inputs, r.truncate,
                                                  r.max_new_tokens,
                                                  cfg.overflow_checks)
                   IN IF IsOk(vi)
                      THEN ValidateGrammar(c, r, p, vi.val)
                      ELSE /\ Return(c, vi)
                           /\ UNCHANGED <<slot, ingress, stats>>
    /\ UNCHANGED <<cfg, open, disp, wq, worker>>

\* A caller that is not in a call calls validate with a request of `requests`.
StartValidate(c, requests) ==
    /\ open
    /\ pc[c] = "idle"
    /\ \E r \in requests : Validate(c, r)

\* response_receiver.await.unwrap()? in tokenize, and the rest of
\* validate_input and validate: the reply slot holds the worker's reply, or
\* its sender was dropped and the unwrap panics.
TokenizeReply(c) ==
    /\ pc[c] = "tokenize"
    /\ slot[c].st \in {"sent", "closed"}
    /\ LET r == req[c][2]
           p == ctx[c][1]
           reply == slot[c].val
       IN IF slot[c].st = "closed"
          THEN /\ Return(c, Panicked)
               /\ slot' = [slot EXCEPT ![c] = NoSlot]
               /\ UNCHANGED <<ingress, stats>>
          ELSE IF ~IsOk(reply)
          THEN /\ Return(c, reply)
               /\ slot' = [slot EXCEPT ![c] = NoSlot]
               /\ UNCHANGED <<ingress, stats>>
          ELSE LET vi == validate_input_encoded(cfg, reply.val, r.max_new_tokens)
               IN IF IsOk(vi)
                  THEN ValidateGrammar(c, r, p, vi.val)
                  ELSE /\ Return(c, vi)
                       /\ slot' = [slot EXCEPT ![c] = NoSlot]
                       /\ UNCHANGED <<ingress, stats>>
    /\ UNCHANGED <<cfg, open, req, disp, wq, worker>>

\* response_receiver.await.unwrap()? in compile_grammar, and the rest of
\* validate.
CompileReply(c) ==
    /\ pc[c] = "compile"
    /\ slot[c].st \in {"sent", "closed"}
    /\ LET g == GrammarCompiled(slot[c].val) IN
       Return(c, IF slot[c].st = "closed" THEN Panicked
                 ELSE IF IsOk(g)
                 THEN Ok(ValidGenerateRequest(cfg, req[c][2], ctx[c][1],
                                              ctx[c][2], g.val))
                 ELSE g)
    /\ slot' = [slot EXCEPT ![c] = NoSlot]
    /\ UNCHANGED <<cfg, open, req, ingress, disp, wq, worker, stats>>

\* validate_best_of is called.
ValidateBestOf(c, n) ==
    /\ open
    /\ pc[c] = "idle"
    /\ req' = [req EXCEPT ![c] = <<"validate_best_of", n>>]
    /\ Return(c, validate_best_of(cfg, n))
    /\ UNCHANGED <<cfg, open, slot, ingress, disp, wq, worker, stats>>

\* The caller drops the future of its validate call at an await: the receiver
\* of the reply slot goes with it.
Cancel(c) ==
    /\ pc[c] \in {"tokenize", "compile"}
    /\ Return(c, [kind |-> "cancelled"])
    /\ slot' = [slot EXCEPT ![c] =
                  IF @.st = "pending" THEN [st |-> "rx_dropped", val |-> NoResult]
                  ELSE NoSlot]
    /\ UNCHANGED <<cfg, open, req, ingress, disp, wq, worker, stats>>

\* The Validation value is dropped, and with it the senders of both ingress
\* queues; the calls borrow it, so none is running.
DropValidation ==
    /\ open
    /\ cfg.tokenizer
    /\ \A c \in DOMAIN pc : pc[c] \in {"idle", "done"}
    /\ open' = FALSE
    /\ UNCHANGED <<cfg, pc, req, ctx, out, slot, ingress, disp, wq, worker, stats>>

\* ------------------------------------------------------- dispatcher, workers

\* The reply slots of the messages `msgs`, whose senders are dropped unsent.
Dropped(msgs) ==
    [c \in DOMAIN slot |->
       IF slot[c].st = "pending" /\ \E i \in DOMAIN msgs : msgs[i].c = c
       THEN [st |-> "closed", val |-> NoResult]
       ELSE slot[c]]

\* A dispatcher that never moves on to the next sender.
SameSender(w) == w

\* for sender in &senders, inside loop: the sender after senders[w].
NextSender(w) == (w % cfg.workers) + 1

\* One round of round_robin_task: receiver.recv().await yields a message and
\* sender.send(request).unwrap() forwards it to the worker the loop is at.
\* The send fails when that worker has dropped its receiver; the unwrap then
\* panics and the task drops the message, the ingress receiver (with what is
\* queued) and the senders of the worker queues.
Dispatch(p) ==
    /\ disp[p].st = "running"
    /\ ingress[p] # <<>>
    /\ LET request == [Head(ingress[p]) EXCEPT !.k = disp[p].received]
           w == disp[p].next
       IN IF worker[p][w] = "running"
          THEN /\ wq' = [wq EXCEPT ![p][w] = Append(@, request)]
               /\ ingress' = [ingress EXCEPT ![p] = Tail(@)]
               /\ disp' = [disp EXCEPT ![p].next = NextSender(w),
                                       ![p].received = @ + 1]
               /\ stats' = [stats EXCEPT ![p].forwarded = @ + 1]
               /\ UNCHANGED slot
          ELSE /\ disp' = [disp EXCEPT ![p].st = "panicked",
                                       ![p].received = @ + 1]
               /\ ingress' = [ingress EXCEPT ![p] = <<>>]
               /\ slot' = Dropped(ingress[p])
               /\ UNCHANGED <<wq, stats>>
    /\ UNCHANGED <<cfg, open, pc, req, ctx, out, worker>>

\* receiver.recv().await yields None, the ingress queue being closed and
\* empty: round_robin_task returns and drops the senders of the worker queues.
DispatcherReturn(p) ==
    /\ disp[p].st = "running"
    /\ ~open
    /\ ingress[p] = <<>>
    /\ disp' = [disp EXCEPT ![p].st = "returned"]
    /\ UNCHANGED <<cfg, open, pc, req, ctx, out, slot, ingress, wq, worker, stats>>

\* What a worker replies to a request.
Reply(p, request) ==
    IF p = "tokenizer" THEN prepare_input(request.inputs, request.truncate)
    ELSE compile_grammar(request.inputs)

\* A worker that unwraps the result of the send.
PanicOnSendError(st) == IF st = "pending" THEN "running" ELSE "panicked"

\* response_tx.send(reply).unwrap_or(()): the worker goes on whether the send
\* succeeded or the receiver was dropped.
AfterSend(st) == "running"

\* One round of tokenizer_worker or grammar_compilation_worker: blocking_recv
\* yields a request and the reply is sent to its slot.
Work(p, w) ==
    /\ worker[p][w] = "running"
    /\ wq[p][w] # <<>>
    /\ LET request == Head(wq[p][w]) IN
       /\ slot' = [slot EXCEPT ![request.c] =
                     IF @.st = "pending"
                     THEN [st |-> "sent", val |-> Reply(p, request)]
                     ELSE @]
       /\ worker' = [worker EXCEPT ![p][w] = AfterSend(slot[request.c].st)]
    /\ wq' = [wq EXCEPT ![p][w] = Tail(@)]
    /\ stats' = [stats EXCEPT ![p].served = @ + 1]
    /\ UNCHANGED <<cfg, open, pc, req, ctx, out, ingress, disp>>

\* A worker ends early: grammar_compilation_worker returns the PyErr of a
\* failed import of outlines, or the thread panics in the tokenizer or the
\* grammar library. Its receiver is dropped with the requests queued.
WorkerPanic(p, w) ==
    /\ worker[p][w] = "running"
    /\ Cardinality({ x \in Pools \X Workers : worker[x[1]][x[2]] = "panicked" })
         < MaxPanics
    /\ worker' = [worker EXCEPT ![p][w] = "panicked"]
    /\ wq' = [wq EXCEPT ![p][w] = <<>>]
    /\ slot' = Dropped(wq[p][w])
    /\ UNCHANGED <<cfg, open, pc, req, ctx, out, ingress, disp, stats>>

\* blocking_recv yields None, the dispatcher having dropped the sender and
\* the queue being empty: the worker returns.
WorkerReturn(p, w) ==
    /\ worker[p][w] = "running"
    /\ disp[p].st \in {"panicked", "returned"}
    /\ wq[p][w] = <<>>
    /\ worker' = [worker EXCEPT ![p][w] = "returned"]
    /\ UNCHANGED <<cfg, open, pc, req, ctx, out, slot, ingress, disp, wq, stats>>

\* ------------------------------------------------------------ specifications

\* One call at a time on a healthy pool of one worker, over every request of
\* at most MaxSet non-default fields.
Configs ==
    { Validation(1, TRUE, 2, disable_grammar_support, FALSE) :
        disable_grammar_support \in BOOLEAN }
    \cup { Validation(1, FALSE, 2, disable_grammar_support, overflow_checks) :
             disable_grammar_support \in BOOLEAN, overflow_checks \in BOOLEAN }
    \cup { Validation(1, FALSE, 1, TRUE, FALSE) }

Requests == Vary({DefaultRequest}, MaxSet)

BestOfArgs == 0..4

Init == InitOf({1}, Configs)

Next ==
    \/ StartValidate(1, Requests)
    \/ \E n \in BestOfArgs : ValidateBestOf(1, n)
    \/ TokenizeReply(1)
    \/ CompileReply(1)
    \/ \E p \in Pools : Dispatch(p)
    \/ \E p \in Pools : \E w \in Workers : Work(p, w)

Spec == Init /\ [][Next]_vars

\* PoolCallers concurrent calls on pools of PoolWorkers workers, with workers
\* that end early, callers that cancel and the Validation value dropped at
\* the end; the requests are one of each path through the pools.
PoolConfigs == { Validation(PoolWorkers, TRUE, 2, FALSE, FALSE) }

PoolRequests ==
    { [DefaultRequest EXCEPT !.seed = Some(7)],
      [DefaultRequest EXCEPT !.seed = Some(7),
                             !.grammar = Some(GrammarJson(JsonObject("S")))],
      [DefaultRequest EXCEPT !.seed = Some(7), !.inputs = <<>>] }

Callers == 1..PoolCallers

PoolInit == InitOf(Callers, PoolConfigs)

PoolNext ==
    \/ \E c \in Callers : StartValidate(c, PoolRequests)
    \/ \E c \in Callers : TokenizeReply(c)
    \/ \E c \in Callers : CompileReply(c)
    \/ \E c \in Callers : Cancel(c)
    \/ DropValidation
    \/ \E p \in Pools : Dispatch(p)
    \/ \E p \in Pools : DispatcherReturn(p)
    \/ \E p \in Pools : \E w \in Workers : Work(p, w)
    \/ \E p \in Pools : \E w \in Workers : WorkerPanic(p, w)
    \/ \E p \in Pools : \E w \in Workers : WorkerReturn(p, w)

PoolSpec == PoolInit /\ [][PoolNext]_vars

\* PoolCallers concurrent calls on healthy pools of PoolWorkers workers, with
\* and without a tokenizer and in both builds; the requests take each path
\* through validate, with the seed given and omitted.
PairConfigs ==
    { Validation(PoolWorkers, TRUE, 2, FALSE, FALSE) }
    \cup { Validation(PoolWorkers, FALSE, 2, FALSE, overflow_checks) :
             overflow_checks \in BOOLEAN }

PairRequests ==
    { [DefaultRequest EXCEPT !.seed = Some(7), !.max_new_tokens = Some(1)],
      [DefaultRequest EXCEPT !.max_new_tokens = Some(1)],
      [DefaultRequest EXCEPT !.seed = Some(7), !.max_new_tokens = Some(1),
                             !.grammar = Some(GrammarJson(JsonObject("S")))],
      [DefaultRequest EXCEPT !.seed = Some(7), !.max_new_tokens = Some(1),
                             !.inputs = <<"?">>],
      [DefaultRequest EXCEPT !.seed = Some(7), !.max_new_tokens = Some(1),
                             !.inputs = <<"b", "a", "a", "a", "a">>,
                             !.truncate = Some(2)],
      [DefaultRequest EXCEPT !.seed = Some(7), !.max_new_tokens = Some(U32Max)] }

PairInit == InitOf(Callers, PairConfigs)

PairNext ==
    \/ \E c \in Callers : StartValidate(c, PairRequests)
    \/ \E c \in Callers : TokenizeReply(c)
    \/ \E c \in Callers : CompileReply(c)
    \/ \E p \in Pools : Dispatch(p)
    \/ \E p \in Pools : \E w \in Workers : Work(p, w)

PairSpec == PairInit /\ [][PairNext]_vars

\* The caller takes the result of its call and is free to call again.
Again(c) ==
    /\ pc[c] = "done"
    /\ pc' = [pc EXCEPT ![c] = "idle"]
    /\ req' = [req EXCEPT ![c] = <<>>]
    /\ out' = [out EXCEPT ![c] = NoResult]
    /\ slot' = [slot EXCEPT ![c] = NoSlot]
    /\ UNCHANGED <<cfg, open, ctx, ingress, disp, wq, worker, stats>>

\* DepthCallers callers that call again and again, MaxSent calls in all, on a
\* healthy tokenizer pool of PoolWorkers workers that serve at any speed.
DepthConfigs == { Validation(PoolWorkers, TRUE, 2, FALSE, FALSE) }

DepthRequests == { [DefaultRequest EXCEPT !.seed = Some(7)] }

DepthInit == InitOf(1..DepthCallers, DepthConfigs)

DepthNext ==
    \/ \E c \in 1..DepthCallers :
         stats["tokenizer"].sent < MaxSent /\ StartValidate(c, DepthRequests)
    \/ \E c \in 1..DepthCallers : TokenizeReply(c)
    \/ \E c \in 1..DepthCallers : Again(c)
    \/ \E p \in Pools : Dispatch(p)
    \/ \E p \in Pools : \E w \in Workers : Work(p, w)

DepthSpec == DepthInit /\ [][DepthNext]_vars

\* One call at a time, as in Spec, on Validation values of several token
\* limits: max_input_length below max_total_tokens, equal to it, and a
\* max_total_tokens that does not fit in a u32.
LimitConfigs ==
    { WithLimits(Validation(1, tokenizer, 2, FALSE, FALSE), limits[1], limits[2]) :
        tokenizer \in BOOLEAN,
        limits \in { <<5, 6>>, <<3, 6>>, <<6, 6>>, <<5, U32Mod + 1>> } }

LimitsInit == InitOf({1}, LimitConfigs)

LimitsSpec == LimitsInit /\ [][Next]_vars

\* PoolCallers concurrent calls on healthy pools of PoolWorkers workers, the
\* callers free to drop a call at an await, under the scheduling of the
\* runtime: a dispatcher with a message to receive, a worker thread with a
\* request in its queue and a call whose reply is in its slot each take
\* their step in the end.
LiveConfigs == { Validation(PoolWorkers, TRUE, 2, FALSE, FALSE) }

\* A request that goes through both pools and one whose prompt the tokenizer
\* refuses.
LiveRequests ==
    { [DefaultRequest EXCEPT !.seed = Some(7),
                             !.grammar = Some(GrammarJson(JsonObject("S")))],
      [DefaultRequest EXCEPT !.seed = Some(7), !.inputs = <<"?">>] }

LiveInit == InitOf(Callers, LiveConfigs)

LiveNext ==
    \/ \E c \in Callers : StartValidate(c, LiveRequests)
    \/ \E c \in Callers : TokenizeReply(c)
    \/ \E c \in Callers : CompileReply(c)
    \/ \E c \in Callers : Cancel(c)
    \/ \E p \in Pools : Dispatch(p)
    \/ \E p \in Pools : \E w \in Workers : Work(p, w)

Fairness ==
    /\ \A c \in Callers : WF_vars(TokenizeReply(c)) /\ WF_vars(CompileReply(c))
    /\ \A p \in Pools : WF_vars(Dispatch(p))
    /\ \A p \in Pools : \A w \in 1..PoolWorkers : WF_vars(Work(p, w))

LiveSpec == LiveInit /\ [][LiveNext]_vars /\ Fairness

\* ------------------------------------------------------------------- claims

Calls == DOMAIN pc

\* The call c was a validate call and has returned.
Validated(c) == pc[c] = "done" /\ req[c] # <<>> /\ req[c][1] = "validate"

\* The call c was a validate_best_of call and has returned.
BestOfValidated(c) ==
    pc[c] = "done" /\ req[c] # <<>> /\ req[c][1] = "validate_best_of"

Request(c) == req[c][2]

Accepted(c) == Validated(c) /\ IsOk(out[c])

\* The messages of a pool, in its ingress queue and in its worker queues.
RECURSIVE Flatten(_, _)
Flatten(queues, w) ==
    IF w = 0 THEN <<>> ELSE Flatten(queues, w - 1) \o queues[w]

Queued(p) == ingress[p] \o Flatten(wq[p], cfg.workers)

\* C1 (as claimed): every request validate accepts, with or without a
\* tokenizer, has input_length + max_new_tokens <= max_total_tokens and
\* input_length <= max_input_length.
C1_BudgetLaw ==
    \A c \in Calls :
        Accepted(c) =>
            /\ out[c].val.input_length + out[c].val.stopping_parameters.max_new_tokens
                 <= cfg.max_total_tokens
            /\ out[c].val.input_length <= cfg.max_input_length

\* C2 (as claimed): after a worker has ended early the pool is not poisoned:
\* as long as the Validation value lives, the dispatcher of the pool runs and
\* its ingress queue is open.
C2_FailureIsolation ==
    \A p \in Pools :
        (open /\ \E w \in Workers : worker[p][w] = "panicked")
            => disp[p].st = "running"

\* C3 (as claimed): the dispatcher drops no message: every message sent to an
\* ingress queue is still in it or was forwarded to a worker queue, and no
\* call has two messages queued in a pool.
C3_NoMessageDropped ==
    \A p \in Pools :
        /\ stats[p].sent = Len(ingress[p]) + stats[p].forwarded
        /\ \A i, j \in DOMAIN Queued(p) :
               Queued(p)[i].c = Queued(p)[j].c => i = j

\* C4: strict round-robin: the k-th message a dispatcher received (from 0) is
\* in the queue of worker k mod N (workers counted from 1 in the model), and
\* the running dispatcher stands at the sender of the next one.
C4_RoundRobin ==
    \A p \in Pools :
        /\ \A w \in Workers : \A i \in DOMAIN wq[p][w] :
               (wq[p][w][i].k % cfg.workers) + 1 = w
        /\ disp[p].st = "running" =>
               disp[p].next = (disp[p].received % cfg.workers) + 1

\* C4 witness: the round has wrapped: the message number N is in the queue of
\* the first worker.
C4_Witness ==
    \E p \in Pools : \E i \in DOMAIN wq[p][1] : wq[p][1][i].k = cfg.workers

\* C5: a worker that serves a request whose caller has dropped the reply
\* slot discards the reply: the worker keeps running with the rest of its
\* queue, no slot changes and no call gets a result from it.
C5_CancelledReplyDiscarded ==
    [][ \A p \in Pools : \A w \in Workers :
          ( /\ worker[p][w] = "running"
            /\ wq[p][w] # <<>>
            /\ slot[Head(wq[p][w]).c].st = "rx_dropped"
            /\ stats'[p].served = stats[p].served + 1
            /\ wq'[p][w] = Tail(wq[p][w]) )
          => /\ worker'[p][w] = "running"
             /\ slot' = slot
             /\ out' = out
             /\ pc' = pc ]_vars

\* C5 witness: a call was cancelled with its request in flight, that request
\* has been served (it is in no queue, and nothing panicked that could have
\* dropped it), and the worker has served a request after it.
C5_Witness ==
    \E c \in Calls : \E p \in Pools :
        /\ out[c].kind = "cancelled"
        /\ slot[c].st = "rx_dropped"
        /\ \A q \in Pools : \A i \in DOMAIN Queued(q) : Queued(q)[i].c # c
        /\ \A q \in Pools : disp[q].st = "running"
        /\ \A q \in Pools : \A w \in Workers : worker[q][w] = "running"
        /\ stats[p].served >= cfg.workers + 1

\* C6: a grammar compilation request of a running call is queued only while
\* the call awaits it, after its tokenizer request has left the tokenizer pool
\* with the reply received, and with the token budget of that reply checked.
C6_TokenizeBeforeCompile ==
    \A i \in DOMAIN Queued("grammar") :
        LET c == Queued("grammar")[i].c IN
        /\ \A j \in DOMAIN Queued("tokenizer") : Queued("tokenizer")[j].c # c
        /\ slot[c].st = "pending" =>
             /\ pc[c] = "compile"
             /\ Len(ctx[c]) = 2
             /\ ctx[c][2].input_length
                  = Len(prepare_input(Request(c).inputs, Request(c).truncate).val.encoding)
             /\ ctx[c][2].input_length + ctx[c][2].max_new_tokens
                  <= cfg.max_total_tokens
             /\ ctx[c][2].input_length <= cfg.max_input_length

\* C6 witness: a grammar compilation request is queued.
C6_Witness == Queued("grammar") # <<>>

\* The request asks for sampling (stated on the request, for the claims).
AsksSampling(r) ==
    \/ r.do_sample
    \/ r.temperature # None
    \/ r.top_k # None
    \/ r.top_p # None
    \/ r.typical_p # None

\* C7 (as claimed): a request with best_of > 1 is accepted with sampling and
\* a drawn seed, or fails with BestOfSampling or BestOfSeed.
C7_BestOfCoupling ==
    \A c \in Calls :
        (Validated(c) /\ UnwrapOr(Request(c).best_of, 1) > 1) =>
            \/ /\ IsOk(out[c])
               /\ AsksSampling(Request(c))
               /\ Request(c).seed = None
               /\ out[c].val.parameters.seed \in RandomSeeds
            \/ ErrIs(out[c], "BestOfSampling")
            \/ ErrIs(out[c], "BestOfSeed")

\* The errors of the checks validate makes before it looks at the seed.
BeforeSeed ==
    { "BestOfSampling", "Temperature", "RepetitionPenalty", "FrequencyPenalty",
      "TopP", "TypicalP", "TopK", "NegativeMaxNewTokens", "StopSequence" }

\* C7 (amended): a request with best_of > 1 is accepted only with sampling
\* and a drawn seed; without sampling it fails with BestOfSampling, and with
\* sampling and a seed of the caller it fails with BestOfSeed or with the
\* error of a check made before the seed is looked at.
C7_BestOfCouplingAmended ==
    \A c \in Calls :
        (Validated(c) /\ UnwrapOr(Request(c).best_of, 1) > 1) =>
            /\ IsOk(out[c]) =>
                 /\ AsksSampling(Request(c))
                 /\ Request(c).seed = None
                 /\ out[c].val.parameters.seed \in RandomSeeds
            /\ ~AsksSampling(Request(c)) => ErrIs(out[c], "BestOfSampling")
            /\ (AsksSampling(Request(c)) /\ Request(c).seed # None) =>
                 /\ IsErr(out[c])
                 /\ out[c].err.name \in (BeforeSeed \ {"BestOfSampling"}) \cup {"BestOfSeed"}

\* C7 witness: a request with best_of > 1 was accepted.
C7_Witness ==
    \E c \in Calls : Accepted(c) /\ UnwrapOr(Request(c).best_of, 1) > 1

C9_ValidateBestOf ==
    \A c \in Calls :
        BestOfValidated(c) =>
            LET n == Request(c) IN
            IF 1 <= n /\ n <= cfg.max_best_of THEN out[c] = Ok(n)
            ELSE IF cfg.max_best_of = 1 /\ n # 1
            THEN out[c] = Err(Error("BestOfDisabled", <<>>))
            ELSE out[c] = Err(Error("BestOf", <<cfg.max_best_of, n>>))

\* C10 (as claimed): an empty prompt is rejected with EmptyInput, whatever
\* the parameters.
C10_EmptyInput ==
    \A c \in Calls :
        (Validated(c) /\ Request(c).inputs = <<>>) => ErrIs(out[c], "EmptyInput")

\* The parameters pass the checks validate makes before it looks at the
\* prompt (stated on the request, for the claims).
PassesBeforePrompt(r) ==
    /\ UnwrapOr(r.best_of, 1) > 1 => AsksSampling(r) /\ r.seed = None
    /\ r.temperature # None => r.temperature[1] > 0
    /\ r.repetition_penalty # None => r.repetition_penalty[1] > 0
    /\ r.frequency_penalty # None =>
         r.frequency_penalty[1] >= -200 /\ r.frequency_penalty[1] <= 200
    /\ r.top_p # None => r.top_p[1] > 0 /\ r.top_p[1] < 100
    /\ r.typical_p # None => r.typical_p[1] > 0 /\ r.typical_p[1] < 100
    /\ r.top_k # None => r.top_k[1] > 0
    /\ r.max_new_tokens # Some(0)
    /\ Len(r.stop) <= cfg.max_stop_sequences
    /\ r.top_n_tokens # None => r.top_n_tokens[1] <= cfg.max_top_n_tokens

\* C10 (amended): an empty prompt is never accepted: it is rejected with
\* EmptyInput when the parameters pass the checks made before the prompt is
\* looked at, whatever truncate, max_new_tokens and grammar are, and with the
\* error of one of those checks otherwise.
C10_EmptyInputAmended ==
    \A c \in Calls :
        (Validated(c) /\ Request(c).inputs = <<>>) =>
            /\ IsErr(out[c])
            /\ PassesBeforePrompt(Request(c)) <=> ErrIs(out[c], "EmptyInput")
            /\ out[c].err.name \in
                 BeforeSeed \cup {"BestOfSeed", "TopNTokens", "EmptyInput"}

\* C10 witness: an empty prompt with a truncate of 0 was rejected with
\* EmptyInput.
C10_Witness ==
    \E c \in Calls :
        /\ Validated(c)
        /\ Request(c).inputs = <<>>
        /\ Request(c).truncate = Some(0)
        /\ ErrIs(out[c], "EmptyInput")

\* The request passes the checks validate makes before it looks at top_p
\* (a request that gives top_p asks for sampling, so the first check passes).
PassesBeforeTopP(r) ==
    /\ r.temperature # None => r.temperature[1] > 0
    /\ r.repetition_penalty # None => r.repetition_penalty[1] > 0
    /\ r.frequency_penalty # None =>
         r.frequency_penalty[1] >= -200 /\ r.frequency_penalty[1] <= 200

\* C11: a top_p of the caller is accepted only when 0.0 < top_p < 1.0, and is
\* then emitted as given; a top_p <= 0.0 or >= 1.0 (1.0 included) is never
\* accepted and gets TopP in a request that is valid up to there; the
\* otherwise valid request with top_p = 0.99 is accepted.
C11_TopP ==
    \A c \in Calls :
        (Validated(c) /\ Request(c).top_p # None) =>
            LET v == Request(c).top_p[1] IN
            /\ IsOk(out[c]) =>
                 /\ 0 < v /\ v < 100
                 /\ out[c].val.parameters.top_p = v
            /\ (v <= 0 \/ v >= 100) =>
                 /\ IsErr(out[c])
                 /\ PassesBeforeTopP(Request(c)) => out[c] = Err(Error("TopP", <<>>))
            /\ ErrIs(out[c], "TopP") => (v <= 0 \/ v >= 100)
            /\ Request(c) = [DefaultRequest EXCEPT !.top_p = Some(99),
                                                   !.max_new_tokens = Some(1)]
                 => IsOk(out[c])

\* C11 witness: a request with top_p = 1.0 was rejected with TopP, the rest
\* of it being valid.
C11_Witness ==
    \E c \in Calls :
        /\ Validated(c)
        /\ Request(c) = [DefaultRequest EXCEPT !.top_p = Some(100),
                                               !.max_new_tokens = Some(1)]
        /\ ErrIs(out[c], "TopP")

\* The request passes the checks validate makes before it looks at
\* top_n_tokens.
PassesBeforeTopNTokens(r) ==
    /\ UnwrapOr(r.best_of, 1) > 1 => AsksSampling(r) /\ r.seed = None
    /\ r.temperature # None => r.temperature[1] > 0
    /\ r.repetition_penalty # None => r.repetition_penalty[1] > 0
    /\ r.frequency_penalty # None =>
         r.frequency_penalty[1] >= -200 /\ r.frequency_penalty[1] <= 200
    /\ r.top_p # None => r.top_p[1] > 0 /\ r.top_p[1] < 100
    /\ r.typical_p # None => r.typical_p[1] > 0 /\ r.typical_p[1] < 100
    /\ r.top_k # None => r.top_k[1] > 0
    /\ r.max_new_tokens # Some(0)
    /\ Len(r.stop) <= cfg.max_stop_sequences

\* C12: validate returns TopNTokens only for a top_n_tokens v above
\* max_top_n_tokens, as TopNTokens(max_top_n_tokens, v), and returns it for
\* every such v in a request that is valid up to there; such a v is never
\* accepted, and every accepted request emits the top_n_tokens it was given,
\* which is at most max_top_n_tokens.
C12_TopNTokens ==
    \A c \in Calls :
        Validated(c) =>
            LET given == Request(c).top_n_tokens # None
                v == IF given THEN Request(c).top_n_tokens[1] ELSE 0
            IN
            /\ ErrIs(out[c], "TopNTokens") =>
                 /\ given /\ v > cfg.max_top_n_tokens
                 /\ out[c].err.args = <<cfg.max_top_n_tokens, v>>
            /\ (given /\ v > cfg.max_top_n_tokens) =>
                 /\ IsErr(out[c])
                 /\ PassesBeforeTopNTokens(Request(c)) => ErrIs(out[c], "TopNTokens")
            /\ IsOk(out[c]) =>
                 /\ out[c].val.top_n_tokens = v
                 /\ out[c].val.top_n_tokens <= cfg.max_top_n_tokens
            /\ \A n \in {0, cfg.max_top_n_tokens} :
                 Request(c) = [DefaultRequest EXCEPT !.top_n_tokens = Some(n),
                                                     !.max_new_tokens = Some(1)]
                   => IsOk(out[c])

\* C12 witness: a request with top_n_tokens = max_top_n_tokens was accepted.
C12_Witness ==
    \E c \in Calls :
        /\ Accepted(c)
        /\ Request(c).top_n_tokens = Some(cfg.max_top_n_tokens)
        /\ out[c].val.top_n_tokens = cfg.max_top_n_tokens

\* C13: an accepted request emits, for each parameter the caller omitted, its
\* default: temperature, repetition_penalty, top_p and typical_p 1.0,
\* frequency_penalty 0.0, top_k 0 and top_n_tokens 0; the emitted top_p of
\* 1.0 is one no caller can give.
C13_Defaults ==
    \A c \in Calls :
        Accepted(c) =>
            LET r == Request(c)
                e == out[c].val
            IN
            /\ r.temperature = None => e.parameters.temperature = 100
            /\ r.repetition_penalty = None => e.parameters.repetition_penalty = 100
            /\ r.top_p = None => e.parameters.top_p = 100
            /\ r.typical_p = None => e.parameters.typical_p = 100
            /\ r.top_k = None => e.parameters.top_k = 0
            /\ r.top_n_tokens = None => e.top_n_tokens = 0
            /\ r.frequency_penalty = None => e.parameters.frequency_penalty = 0
            /\ e.parameters.top_p = 100 => r.top_p = None

\* C13 witness: a request that omits all seven parameters was accepted.
C13_Witness ==
    \E c \in Calls :
        /\ Accepted(c)
        /\ \A f \in { "temperature", "repetition_penalty", "top_p", "typical_p",
                      "top_k", "top_n_tokens", "frequency_penalty" } :
             Request(c)[f] = None

\* The call went through validate_input of a Validation without a tokenizer:
\* the parameter checks passed and max_new_tokens or truncate was given.
PlainInputValidated(c) ==
    /\ Validated(c)
    /\ ~cfg.tokenizer
    /\ out[c].kind = "panic" \/ IsOk(out[c])
         \/ (IsErr(out[c])
               /\ out[c].err.name \in {"MaxNewTokens", "Grammar", "InvalidGrammar"})

\* max_new_tokens as validate_input without a tokenizer takes it: the
\* caller's, or what truncate leaves of max_total_tokens.
PlainMaxNewTokens(r) ==
    IF r.max_new_tokens # None THEN r.max_new_tokens[1]
    ELSE IF cfg.max_total_tokens > r.truncate[1]
         THEN cfg.max_total_tokens - r.truncate[1]
         ELSE 0

\* C14 (as claimed): without a tokenizer, validate_input takes input_length =
\* truncate if given, max_input_length otherwise, and rejects exactly when
\* input_length + max_new_tokens > max_total_tokens, with
\* MaxNewTokens(max_total_tokens - max_input_length, max_new_tokens).
C14_PlainValidateInput ==
    \A c \in Calls :
        PlainInputValidated(c) =>
            LET r == Request(c)
                input_length == IF r.truncate # None THEN r.truncate[1]
                                ELSE cfg.max_input_length
                mnt == PlainMaxNewTokens(r)
            IN IF input_length + mnt > cfg.max_total_tokens
               THEN out[c] = Err(Error("MaxNewTokens",
                        <<cfg.max_total_tokens - cfg.max_input_length, mnt>>))
               ELSE /\ ~ErrIs(out[c], "MaxNewTokens")
                    /\ out[c].kind # "panic"
                    /\ IsOk(out[c]) => out[c].val.input_length = input_length

\* The call went through validate_input of a Validation with a tokenizer: the
\* parameter checks passed and the tokenizer worker replied with an encoding.
EncodedInputValidated(c) ==
    /\ Validated(c)
    /\ cfg.tokenizer
    /\ IsOk(out[c])
         \/ (IsErr(out[c])
               /\ out[c].err.name \in {"MaxTotalTokens", "InputLength",
                                       "Grammar", "InvalidGrammar"})

\* The number of tokens of the prompt once the worker has truncated it.
TokensOf(r) ==
    IF r.truncate # None /\ r.truncate[1] < Len(Encode(r.inputs))
    THEN r.truncate[1]
    ELSE Len(Encode(r.inputs))

\* max_new_tokens as validate_input with a tokenizer takes it: the caller's,
\* or what the prompt leaves of max_total_tokens.
EncodedMaxNewTokens(r) ==
    IF r.max_new_tokens # None THEN r.max_new_tokens[1]
    ELSE IF cfg.max_total_tokens > TokensOf(r)
         THEN cfg.max_total_tokens - TokensOf(r)
         ELSE 0

\* C15: with a tokenizer, validate_input returns
\* MaxTotalTokens(max_total_tokens, input_length, max_new_tokens) whenever
\* input_length + max_new_tokens > max_total_tokens, also when input_length
\* exceeds max_input_length, and returns
\* InputLength(max_input_length, input_length) exactly when the total fits
\* and input_length > max_input_length.
C15_TotalBeforeInputLength ==
    \A c \in Calls :
        EncodedInputValidated(c) =>
            LET input_length == TokensOf(Request(c))
                mnt == EncodedMaxNewTokens(Request(c))
            IN IF input_length + mnt > cfg.max_total_tokens
               THEN out[c] = Err(Error("MaxTotalTokens",
                                       <<cfg.max_total_tokens, input_length, mnt>>))
               ELSE IF input_length > cfg.max_input_length
               THEN out[c] = Err(Error("InputLength",
                                       <<cfg.max_input_length, input_length>>))
               ELSE /\ ~ErrIs(out[c], "MaxTotalTokens")
                    /\ ~ErrIs(out[c], "InputLength")

\* C15 witness: a prompt over both limits was rejected with MaxTotalTokens.
C15_Witness ==
    \E c \in Calls :
        /\ EncodedInputValidated(c)
        /\ TokensOf(Request(c)) > cfg.max_input_length
        /\ TokensOf(Request(c)) + EncodedMaxNewTokens(Request(c)) > cfg.max_total_tokens
        /\ ErrIs(out[c], "MaxTotalTokens")

\* C15 second case: a prompt over max_input_length whose total fits was
\* rejected with InputLength.
C15_InputLengthReached ==
    \E c \in Calls :
        /\ EncodedInputValidated(c)
        /\ TokensOf(Request(c)) > cfg.max_input_length
        /\ TokensOf(Request(c)) + EncodedMaxNewTokens(Request(c)) <= cfg.max_total_tokens
        /\ ErrIs(out[c], "InputLength")

\* The request carries a JSON-Schema grammar.
JsonGrammarGiven(r) == r.grammar # None /\ r.grammar[1].kind = "json"

\* C16 (as claimed): whenever validate accepts a request that carries a
\* JSON-Schema grammar, the emitted grammar type is regex and the emitted
\* grammar is not empty, with a tokenizer or without one.
C16_GrammarLowering ==
    \A c \in Calls :
        (Accepted(c) /\ JsonGrammarGiven(Request(c))) =>
            /\ out[c].val.parameters.grammar_type = "regex"
            /\ out[c].val.parameters.grammar # ""

\* C17 (as claimed): in every accepted request the grammar fields are
\* populated (type regex, a grammar set) if and only if grammar support is
\* enabled and the request gave a grammar; otherwise the type is none, the
\* grammar is empty and there are no states_to_token_maps.
C17_GrammarFields ==
    \A c \in Calls :
        Accepted(c) =>
            LET e == out[c].val.parameters IN
            IF ~cfg.disable_grammar_support /\ Request(c).grammar # None
            THEN /\ e.grammar_type = "regex"
                 /\ e.grammar # ""
            ELSE /\ e.grammar_type = "none"
                 /\ e.grammar = ""
                 /\ e.states_to_token_maps = None

\* C18 (as claimed): when validate resumes on a reply slot in which a worker
\* has put an error (Tokenizer(msg) from a tokenizer worker,
\* InvalidGrammar(msg) from a grammar worker), the call returns that error,
\* with the same kind and the same message.
C18_WorkerErrorsUnchanged ==
    [][ \A c \in Calls :
          ( /\ pc[c] \in {"tokenize", "compile"}
            /\ slot[c].st = "sent"
            /\ IsErr(slot[c].val)
            /\ pc'[c] = "done"
            /\ out'[c].kind # "cancelled" )
          => out'[c] = slot[c].val ]_vars

\* The result of a call with the seed left out of what it emits.
SeedElided(o) ==
    IF IsOk(o) THEN [o EXCEPT !.val.parameters.seed = 0] ELSE o

\* C19: two validate calls on the same Validation with the same request
\* return the same: the same error, or the same ValidGenerateRequest, up to
\* the seed when the request gives none, whatever else is interleaved and
\* whichever worker serves each call.
C19_Idempotence ==
    \A c1, c2 \in Calls :
        (Validated(c1) /\ Validated(c2) /\ Request(c1) = Request(c2)) =>
            /\ SeedElided(out[c1]) = SeedElided(out[c2])
            /\ Request(c1).seed # None => out[c1] = out[c2]

\* C19 witness: two calls with the same request and a seed of the caller were
\* accepted, a third call with another request was served in between by the
\* tokenizer pool, so that the two were served by different workers or with
\* the third queued among them.
C19_Witness ==
    \E c1, c2, c3 \in Calls :
        /\ c1 # c2
        /\ Accepted(c1) /\ Accepted(c2) /\ Validated(c3)
        /\ Request(c1) = Request(c2)
        /\ Request(c1).seed # None
        /\ Request(c3) # Request(c1)
        /\ stats["tokenizer"].served = 3

\* The tokenizer worker has put its reply to the call c in the reply slot.
TokenizerReplied(c) ==
    /\ pc[c] = "tokenize"
    /\ slot[c].st = "sent"
    /\ IsOk(slot[c].val)

\* C20: with a tokenizer and truncate = k < len(encode(prompt)), the worker
\* replies with an encoding of exactly k tokens, the last k of the full
\* encoding, and with their decoding as the text, and the accepted request
\* has input_length = k and that text; with truncate absent or
\* >= len(encode(prompt)) the encoding and the prompt are returned unchanged.
C20_LeftTruncation ==
    \A c \in Calls :
        LET r == Request(c)
            full == Encode(r.inputs)
            n == Len(full)
            cuts == r.truncate # None /\ r.truncate[1] < n
            k == IF cuts THEN r.truncate[1] ELSE n
        IN
        /\ TokenizerReplied(c) =>
             LET reply == slot[c].val.val IN
             IF cuts
             THEN /\ Len(reply.encoding) = k
                  /\ \A i \in 1..k : reply.encoding[i] = full[n - k + i]
                  /\ reply.inputs = Decode(reply.encoding)
             ELSE /\ reply.encoding = full
                  /\ reply.inputs = r.inputs
        /\ (Accepted(c) /\ cfg.tokenizer) =>
             /\ out[c].val.input_length = k
             /\ cuts => out[c].val.inputs = Decode(SubSeq(full, n - k + 1, n))
             /\ ~cuts => out[c].val.inputs = r.inputs

\* C20 witness: a prompt of five tokens whose first and last two differ was
\* truncated to two and accepted with input_length 2.
C20_Witness ==
    \E c \in Calls :
        /\ Accepted(c)
        /\ cfg.tokenizer
        /\ Request(c).inputs = <<"b", "a", "a", "a", "a">>
        /\ Request(c).truncate = Some(2)
        /\ out[c].val.input_length = 2
        /\ out[c].val.inputs = <<"a", "a">>

\* C21 (as claimed): a dispatcher that has exited did so with its ingress
\* queue closed and drained and after forwarding every message sent to it: it
\* does not exit while the ingress queue is open.
C21_DispatcherTermination ==
    \A p \in Pools :
        disp[p].st \in {"returned", "panicked"} =>
            /\ ~open
            /\ ingress[p] = <<>>
            /\ stats[p].forwarded = stats[p].sent

\* The requests sent to the pool and not yet answered by a worker.
Pending(p) == stats[p].sent - stats[p].served

\* ceil(a / b)
CeilDiv(a, b) == (a + b - 1) \div b

\* C22 (as claimed): every worker queue holds at most ceil(pending/N) + 1
\* requests, pending being the requests submitted and not yet answered and N
\* the number of workers.
C22_QueueDepth ==
    \A p \in Pools : \A w \in Workers :
        Len(wq[p][w]) <= CeilDiv(Pending(p), cfg.workers) + 1

\* C22 (amended): the dispatcher hands each worker an equal share of what it
\* has received, whatever is pending: a worker queue holds at most
\* ceil(received/N) requests, received being the requests the dispatcher has
\* taken from the ingress queue so far, and never more than are pending.
C22_QueueDepthByReceived ==
    \A p \in Pools : \A w \in Workers :
        /\ Len(wq[p][w]) <= CeilDiv(disp[p].received, cfg.workers)
        /\ Len(wq[p][w]) <= Pending(p)

\* C22 witness: a slow worker holds every pending request, more than
\* ceil(pending/N) + 1 of them, the other workers having answered theirs.
C22_Witness ==
    \E p \in Pools : \E w \in Workers :
        /\ Len(wq[p][w]) = Pending(p)
        /\ Len(wq[p][w]) = CeilDiv(disp[p].received, cfg.workers)
        /\ Len(wq[p][w]) > CeilDiv(Pending(p), cfg.workers) + 1

\* The request passes the checks validate makes before it looks at
\* max_new_tokens.
PassesBeforeMaxNewTokens(r) ==
    /\ UnwrapOr(r.best_of, 1) > 1 => AsksSampling(r)
    /\ r.temperature # None => r.temperature[1] > 0
    /\ r.repetition_penalty # None => r.repetition_penalty[1] > 0
    /\ r.frequency_penalty # None =>
         r.frequency_penalty[1] >= -200 /\ r.frequency_penalty[1] <= 200
    /\ r.top_p # None => r.top_p[1] > 0 /\ r.top_p[1] < 100
    /\ r.typical_p # None => r.typical_p[1] > 0 /\ r.typical_p[1] < 100
    /\ r.top_k # None => r.top_k[1] > 0

\* C23 (as claimed): max_new_tokens is never 0 in an accepted request: a
\* caller value of 0 is rejected with NegativeMaxNewTokens, and a derived
\* value is at least 1 in whatever is accepted.
C23_MaxNewTokensNotZero ==
    \A c \in Calls :
        Validated(c) =>
            /\ IsOk(out[c]) => out[c].val.stopping_parameters.max_new_tokens >= 1
            /\ Request(c).max_new_tokens = Some(0) => IsErr(out[c])

\* C23 (amended): a caller value of 0 is never accepted, and is rejected with
\* NegativeMaxNewTokens when the checks before it pass; a caller value above
\* 0 is emitted as given; and on a Validation with max_input_length <
\* max_total_tokens <= u32::MAX a derived max_new_tokens is at least 1 in
\* every accepted request.
C23_NotZeroWithinLimits ==
    \A c \in Calls :
        Validated(c) =>
            LET r == Request(c) IN
            /\ r.max_new_tokens = Some(0) =>
                 /\ IsErr(out[c])
                 /\ PassesBeforeMaxNewTokens(r) => ErrIs(out[c], "NegativeMaxNewTokens")
            /\ (IsOk(out[c]) /\ r.max_new_tokens # None) =>
                 out[c].val.stopping_parameters.max_new_tokens = r.max_new_tokens[1]
            /\ ( /\ IsOk(out[c])
                 /\ cfg.max_input_length < cfg.max_total_tokens
                 /\ cfg.max_total_tokens <= U32Max )
                 => out[c].val.stopping_parameters.max_new_tokens >= 1

\* C23 witness: on a Validation with max_input_length < max_total_tokens, a
\* request that omits max_new_tokens was accepted with a derived value of
\* exactly 1, its prompt filling max_input_length.
C23_Witness ==
    \E c \in Calls :
        /\ Accepted(c)
        /\ cfg.max_input_length < cfg.max_total_tokens
        /\ cfg.max_total_tokens <= U32Max
        /\ Request(c).max_new_tokens = None
        /\ out[c].val.input_length = cfg.max_input_length
        /\ out[c].val.stopping_parameters.max_new_tokens = 1

\* The request violates the constraint that the named error reports (stated
\* on the request, for the claims).
Violates(r, name) ==
    CASE name = "BestOfSampling" -> UnwrapOr(r.best_of, 1) > 1 /\ ~AsksSampling(r)
      [] name = "BestOfSeed" -> UnwrapOr(r.best_of, 1) > 1 /\ r.seed # None
      [] name = "Temperature" -> r.temperature # None /\ r.temperature[1] <= 0
      [] name = "RepetitionPenalty" ->
           r.repetition_penalty # None /\ r.repetition_penalty[1] <= 0
      [] name = "FrequencyPenalty" ->
           r.frequency_penalty # None
             /\ (r.frequency_penalty[1] < -200 \/ r.frequency_penalty[1] > 200)
      [] name = "TopP" -> r.top_p # None /\ (r.top_p[1] <= 0 \/ r.top_p[1] >= 100)
      [] name = "TypicalP" ->
           r.typical_p # None /\ (r.typical_p[1] <= 0 \/ r.typical_p[1] >= 100)
      [] name = "TopK" -> r.top_k # None /\ r.top_k[1] <= 0
      [] name = "NegativeMaxNewTokens" -> r.max_new_tokens = Some(0)
      [] name = "StopSequence" -> Len(r.stop) > cfg.max_stop_sequences
      [] name = "TopNTokens" ->
           r.top_n_tokens # None /\ r.top_n_tokens[1] > cfg.max_top_n_tokens
      [] name = "Truncate" ->
           r.truncate # None
             /\ (r.truncate[1] = 0 \/ r.truncate[1] > cfg.max_input_length)
      [] name = "EmptyInput" -> r.inputs = <<>>

\* The order of the checks as claimed.
ClaimedOrder ==
    << "BestOfSampling", "BestOfSeed", "Temperature", "RepetitionPenalty",
       "FrequencyPenalty", "TopP", "TypicalP", "TopK", "NegativeMaxNewTokens",
       "StopSequence", "TopNTokens", "Truncate", "EmptyInput" >>

\* The order of the checks as amended: BestOfSeed after StopSequence,
\* EmptyInput before Truncate.
AmendedOrder ==
    << "BestOfSampling", "Temperature", "RepetitionPenalty", "FrequencyPenalty",
       "TopP", "TypicalP", "TopK", "NegativeMaxNewTokens", "StopSequence",
       "BestOfSeed", "TopNTokens", "EmptyInput", "Truncate" >>

\* Every call whose request violates a constraint returned the error of the
\* first constraint of `order` that the request violates.
FirstViolatedReturned(order) ==
    \A c \in Calls :
        Validated(c) =>
            LET violated == { i \in DOMAIN order : Violates(Request(c), order[i]) } IN
            violated # {} =>
                /\ IsErr(out[c])
                /\ out[c].err.name
                     = order[CHOOSE i \in violated : \A j \in violated : i <= j]

\* C24 (as claimed): a request that violates several constraints gets the
\* error of the first violated one in the order BestOfSampling, BestOfSeed,
\* Temperature, RepetitionPenalty, FrequencyPenalty, TopP, TypicalP, TopK,
\* NegativeMaxNewTokens, StopSequence, TopNTokens, Truncate, EmptyInput.
C24_CheckOrder == FirstViolatedReturned(ClaimedOrder)

\* C24 (amended): a request that violates several constraints gets the error
\* of the first violated one in the order BestOfSampling, Temperature,
\* RepetitionPenalty, FrequencyPenalty, TopP, TypicalP, TopK,
\* NegativeMaxNewTokens, StopSequence, BestOfSeed, TopNTokens, EmptyInput,
\* Truncate.
C24_CheckOrderAmended == FirstViolatedReturned(AmendedOrder)

\* C24 witness: a request with best_of > 1, a seed and a temperature of 0
\* got Temperature, the error of the check that comes first.
C24_Witness ==
    \E c \in Calls :
        /\ Validated(c)
        /\ Violates(Request(c), "BestOfSeed")
        /\ Violates(Request(c), "Temperature")
        /\ ErrIs(out[c], "Temperature")

\* The request violates one of the parameter constraints or has an empty
\* prompt.
ViolatesSome(r) == \E i \in DOMAIN AmendedOrder : Violates(r, AmendedOrder[i])

\* C25: a validate call whose request fails a parameter check or has an empty
\* prompt returns its error in the step that starts it, without enqueuing a
\* tokenizer or grammar request: the ingress queues, the worker queues and
\* the reply slots are as before the call.
C25_RejectedNeverEnqueued ==
    [][ \A c \in Calls :
          ( /\ pc[c] = "idle"
            /\ pc'[c] # "idle"
            /\ req'[c][1] = "validate"
            /\ ViolatesSome(req'[c][2]) )
          => /\ pc'[c] = "done"
             /\ IsErr(out'[c])
             /\ ingress' = ingress
             /\ wq' = wq
             /\ stats' = stats
             /\ slot' = slot ]_vars

\* C25 witness: on a Validation with a tokenizer a request with an empty
\* prompt was rejected and nothing was ever sent to a pool.
C25_Witness ==
    \E c \in Calls :
        /\ Validated(c)
        /\ cfg.tokenizer
        /\ Request(c).inputs = <<>>
        /\ IsErr(out[c])
        /\ \A p \in Pools : stats[p].sent = 0 /\ ingress[p] = <<>>

\* The request passes validate_input: the prompt is tokenized and within the
\* token budget (with a tokenizer), or max_new_tokens or truncate is given
\* and the budget holds (without one).
BudgetPasses(r) ==
    IF cfg.tokenizer
    THEN /\ ~EncodeFails(r.inputs)
         /\ TokensOf(r) + EncodedMaxNewTokens(r) <= cfg.max_total_tokens
         /\ TokensOf(r) <= cfg.max_input_length
    ELSE /\ r.max_new_tokens # None \/ r.truncate # None
         /\ (IF r.truncate # None THEN r.truncate[1] ELSE cfg.max_input_length)
              + PlainMaxNewTokens(r) <= cfg.max_total_tokens

\* C26: on a Validation with disable_grammar_support, a request that carries
\* a grammar of either kind is never accepted and never gets InvalidGrammar,
\* it gets Grammar when its parameters, prompt and budget pass, and no
\* grammar compilation request is enqueued for it.
C26_GrammarDisabled ==
    \A c \in Calls :
        ( /\ cfg.disable_grammar_support
          /\ pc[c] # "idle"
          /\ req[c][1] = "validate"
          /\ Request(c).grammar # None ) =>
            /\ pc[c] # "compile"
            /\ stats["grammar"].sent = 0
            /\ pc[c] = "done" =>
                 /\ ~IsOk(out[c])
                 /\ ~ErrIs(out[c], "InvalidGrammar")
                 /\ (~ViolatesSome(Request(c)) /\ BudgetPasses(Request(c)))
                      => out[c] = Err(Error("Grammar", <<>>))
                 /\ ErrIs(out[c], "Grammar") => ~ViolatesSome(Request(c))

\* C26 witness: with a tokenizer and grammar support disabled, a valid
\* request with a JSON-Schema grammar that would compile was rejected with
\* Grammar after its prompt was tokenized.
C26_Witness ==
    \E c \in Calls :
        /\ Validated(c)
        /\ cfg.disable_grammar_support
        /\ cfg.tokenizer
        /\ Request(c).grammar = Some(GrammarJson(JsonObject("S")))
        /\ ErrIs(out[c], "Grammar")
        /\ stats["tokenizer"].served = 1
        /\ stats["grammar"].sent = 0


\* The payload of a JSON-kind grammar as the claim normalises it: a string
\* is parsed again, an object stands, any other value is no payload.
NormalPayload(json) ==
    IF json.t = "string" THEN from_str(json.s)
    ELSE IF json.t = "object" THEN Ok(json)
    ELSE Err(Error("Grammar", <<>>))

\* The request carries a JSON-kind grammar whose payload normalises to a
\* value that passes JSON-Schema validation.
CompilableGrammar(r) ==
    /\ JsonGrammarGiven(r)
    /\ IsOk(NormalPayload(r.grammar[1].json))
    /\ SchemaCompiles(NormalPayload(r.grammar[1].json).val)

\* The call reaches the grammar step: its parameters, prompt and budget pass.
ReachesGrammar(r) == ~ViolatesSome(r) /\ BudgetPasses(r)

\* C27: a grammar compilation request is in the grammar pool, or awaited,
\* only for a JSON-kind grammar whose normalised payload passed JSON-Schema
\* validation, and it carries that payload serialised; a call whose grammar
\* is absent, of regex kind, or fails a step has sent nothing to the pool;
\* a JSON value that is neither string nor object is rejected with Grammar
\* and a payload failing to parse or to validate with InvalidGrammar; an
\* accepted regex-kind grammar is emitted as it was given, as type regex
\* with no states_to_token_maps.
C27_CompileOnlyValidJson ==
    \A c \in Calls :
        (pc[c] # "idle" /\ req[c][1] = "validate") =>
            LET r == Request(c)
                g == r.grammar[1]
            IN
            /\ (pc[c] = "compile" \/ \E i \in DOMAIN Queued("grammar") :
                                       Queued("grammar")[i].c = c)
                 => /\ CompilableGrammar(r)
                    /\ ~cfg.disable_grammar_support
            /\ \A i \in DOMAIN Queued("grammar") :
                 Queued("grammar")[i].c = c
                   => Queued("grammar")[i].inputs
                        = to_string(NormalPayload(g.json).val)
            /\ ~CompilableGrammar(r) => stats["grammar"].sent = 0
            /\ ( /\ pc[c] = "done"
                 /\ out[c].kind \in {"ok", "err"}
                 /\ ReachesGrammar(r)
                 /\ ~cfg.disable_grammar_support
                 /\ r.grammar # None ) =>
                   IF g.kind = "regex"
                   THEN /\ IsOk(out[c])
                        /\ out[c].val.parameters.grammar = g.regex
                        /\ out[c].val.parameters.grammar_type = "regex"
                        /\ out[c].val.parameters.states_to_token_maps = None
                   ELSE IF g.json.t \notin {"string", "object"}
                   THEN out[c] = Err(Error("Grammar", <<>>))
                   ELSE IF ~CompilableGrammar(r)
                   THEN ErrIs(out[c], "InvalidGrammar")
                   ELSE cfg.tokenizer => stats["grammar"].sent = 1

\* C27 witness: the compilation request of a grammar given as a JSON string
\* is in the grammar pool, holding the schema parsed and serialised again,
\* after the tokenizer has served the prompt.
C27_Witness ==
    \E c \in Calls :
        /\ pc[c] = "compile"
        /\ Request(c).grammar = Some(GrammarJson(JsonString("{S}")))
        /\ \E i \in DOMAIN Queued("grammar") :
             /\ Queued("grammar")[i].c = c
             /\ Queued("grammar")[i].inputs = "{S}"
        /\ stats["tokenizer"].served = 1


\* C28: on healthy pools under fair scheduling, every validate call that has
\* a request in a pool gets the reply in its slot unless the caller drops
\* the call first, and every call that awaits a reply ends, accepted or
\* rejected (or dropped by its caller), never in a panic and whatever the
\* other callers do.
C28_Liveness ==
    \A c \in Callers :
        /\ (slot[c].st = "pending")
             ~> (slot[c].st = "sent" \/ out[c].kind = "cancelled")
        /\ (pc[c] \in {"tokenize", "compile"})
             ~> (pc[c] = "done" /\ out[c].kind \in {"ok", "err", "cancelled"})

\* C28 witness: a call went through both pools and was accepted after
\* another caller had dropped its call, while a third call still awaits its
\* reply.
C28_Witness ==
    \E c, d, e \in Callers :
        /\ Accepted(c)
        /\ JsonGrammarGiven(Request(c))
        /\ out[d].kind = "cancelled"
        /\ pc[e] \in {"tokenize", "compile"}
        /\ stats["grammar"].served >= 1


\* C29 (as claimed): without a tokenizer the budget check is exact: a call
\* that reaches validate_input with input_length (truncate, or
\* max_input_length) plus max_new_tokens above max_total_tokens is never
\* accepted, and the sum is computed without overflow, so the call does not
\* panic either.
C29_ExactPlainBudget ==
    \A c \in Calls :
        ( /\ Validated(c)
          /\ ~cfg.tokenizer
          /\ ~ViolatesSome(Request(c))
          /\ Request(c).max_new_tokens # None \/ Request(c).truncate # None
          /\ (IF Request(c).truncate # None THEN Request(c).truncate[1]
              ELSE cfg.max_input_length) + PlainMaxNewTokens(Request(c))
               > cfg.max_total_tokens )
        => /\ ~IsOk(out[c])
           /\ out[c].kind # "panic"

=============================================================================
